---------------------------- MODULE Spec2Model ----------------------------
(***************************************************************************)
(* GimpDial (app/widgets/gimpdial.c): the angle arithmetic, the hit test   *)
(* of a button press and the drag handlers of the dial widget.             *)
(*                                                                         *)
(* Angles are exact multiples of a grid unit, Pi12 units making pi/12, so  *)
(* that 2*pi, pi, pi/2 and the pi/12 proximity threshold are all integers. *)
(* A gdouble is a grid value and gdouble arithmetic is exact.  The gfloat  *)
(* locals of the motion handler are narrower: a gfloat keeps FloatBits     *)
(* significant bits of the grid value, rounded to nearest, ties to even.   *)
(* On this grid the angles of the four axes are gfloats, the angle 7 pi/4  *)
(* of the lower right diagonal is not.                                     *)
(*                                                                         *)
(* A pointer event's position is kept as its offset from the widget        *)
(* centre, dx = x - allocation.width / 2.0 and                             *)
(* dy = allocation.height / 2.0 - y, the two differences the handlers      *)
(* compute before anything else.  Offsets lie on the axes and on the       *)
(* diagonals, where atan2 is an exact multiple of pi/4.                    *)
(***************************************************************************)
EXTENDS Integers, FiniteSets

(* ------------------------------ bounds --------------------------------- *)

\* grid units in pi/12 (the resolution of the angle grid)
Pi12 == 2

\* pointer offsets from the centre, in pixels: NearOffset is 0.3 * radius of
\* the 20-pixel dial exactly, RimOffset is that dial's rim
NearOffset == 3

RimOffset == 10

\* significant bits of a gfloat, counted in grid units: the grid values
\* below 2^FloatBits are gfloats, the larger ones are rounded
FloatBits == 4

(* --------------------------- program constants ------------------------- *)

Pi == 12 * Pi12

TwoPi == 2 * Pi

\* EACH_OR_BOTH is 0.3 = EACH_OR_BOTH_NUM / EACH_OR_BOTH_DEN
EACH_OR_BOTH_NUM == 3

EACH_OR_BOTH_DEN == 10

\* typedef enum DialTarget; a GObject's private struct starts zeroed
DIAL_TARGET_ALPHA == 0

DIAL_TARGET_BETA == 1

DIAL_TARGET_BOTH == 2

\* g_param_spec_int ("border-width", 0, 64, 0)
MinBorderWidth == 0

MaxBorderWidth == 64

\* size_request asks 2 * border_width + 96 in each direction
RequestedSize == 96

(* ------------------------------ inputs --------------------------------- *)

MIN(a, b) == IF a < b THEN a ELSE b

\* values given to the "alpha" and "beta" properties, inside the range
\* [0.0, 2 * G_PI] that their param specs allow
PropAngles == {0, 1, Pi12, TwoPi}

PropBorderWidths == {MinBorderWidth, MaxBorderWidth}

\* allocations handed to size_allocate: a small dial and the requisition
\* of a dial with the widest border
Allocations ==
  { [width |-> 2 * RimOffset, height |-> 4 * RimOffset],
    [width |-> 2 * MaxBorderWidth + RequestedSize,
     height |-> 2 * MaxBorderWidth + RequestedSize] }

\* the four axis directions, as unit steps (dx, dy) with y upwards
Directions == { <<1, 0>>, <<0, 1>>, <<-1, 0>>, <<0, -1>> }

\* pointer offsets from the centre: the centre itself, and each direction
\* at the two radii
Offsets ==
  { <<0, 0>> } \cup
  { <<r * d[1], r * d[2]>> : r \in {NearOffset, RimOffset}, d \in Directions }

Modifiers == { {}, {"GDK_CONTROL_MASK"} }

\* button presses: primary presses anywhere, and one of each other kind
PressEvents ==
  { [type |-> "GDK_BUTTON_PRESS", button |-> 1, ctx |-> FALSE,
     state |-> m, dx |-> o[1], dy |-> o[2]] : m \in Modifiers, o \in Offsets }
  \cup
  { [type |-> "GDK_BUTTON_PRESS", button |-> b, ctx |-> c,
     state |-> m, dx |-> RimOffset, dy |-> 0] :
       b \in {1, 2, 3}, c \in BOOLEAN, m \in Modifiers }
  \cup
  { [type |-> "GDK_2BUTTON_PRESS", button |-> 1, ctx |-> FALSE,
     state |-> {}, dx |-> RimOffset, dy |-> 0] }

MotionEvents == { [dx |-> o[1], dy |-> o[2]] : o \in Offsets }

(* ------------------------------- state --------------------------------- *)

VARIABLES
  alpha,          \* priv->alpha
  beta,           \* priv->beta
  clockwise,      \* priv->clockwise
  target,         \* priv->target
  press_angle,    \* priv->press_angle
  border_width,   \* priv->border_width
  has_grab,       \* priv->has_grab
  press_state,    \* priv->press_state
  allocation,     \* the widget's allocation (width, height)
  mapped,         \* the widget is mapped: its event window is shown
  gtk_grab,       \* the widget holds the toolkit's grab (gtk_grab_add)
  button1,        \* the pointer's button 1 is held down
  last,           \* the handler branch that ran last (an observer, not a
                  \* field)
  call            \* the pure function under evaluation, in SpecPure

vars ==
  << alpha, beta, clockwise, target, press_angle, border_width, has_grab,
     press_state, allocation, mapped, gtk_grab, button1, last, call >>

dial ==
  << alpha, beta, clockwise, target, press_angle, border_width, has_grab,
     press_state, allocation, mapped, gtk_grab, button1, last >>

(* ------------------------- angle/geometry engine ----------------------- *)

angle_mod_2PI(angle) ==
  IF angle < 0 THEN angle + TwoPi
  ELSE IF angle > TwoPi THEN angle - TwoPi
  ELSE angle

\* atan2 (y, x) on the axes and the diagonals, in (-pi, pi];
\* atan2 (0, 0) = 0
atan2(y, x) ==
  CASE y = 0 /\ x >= 0 -> 0
    [] y = 0 /\ x < 0  -> Pi
    [] x = 0 /\ y > 0  -> Pi \div 2
    [] x = 0 /\ y < 0  -> -(Pi \div 2)
    [] y = x /\ x > 0  -> Pi \div 4
    [] y = -x /\ x < 0 -> (3 * Pi) \div 4
    [] y = x /\ x < 0  -> -((3 * Pi) \div 4)
    [] y = -x /\ x > 0 -> -(Pi \div 4)

arctg(y, x) ==
  LET temp == atan2(y, x)
  IN  IF temp < 0 THEN temp + TwoPi ELSE temp

\* the unit in the last place of a gfloat of magnitude m
gfloat_ulp(m) == 2 ^ (CHOOSE k \in 0..FloatBits + 8 :
                        /\ m < 2 ^ (FloatBits + k)
                        /\ (k > 0 => m >= 2 ^ (FloatBits + k - 1)))

\* the conversion of a gdouble to gfloat, as an assignment to a gfloat
\* variable makes it: round to nearest, ties to the even significand
gfloat(x) ==
  LET m == IF x < 0 THEN -x ELSE x
      u == gfloat_ulp(m)
      q == m \div u
      r == m % u
      n == IF 2 * r < u THEN q
           ELSE IF 2 * r > u THEN q + 1
           ELSE IF q % 2 = 0 THEN q ELSE q + 1
  IN  IF x < 0 THEN -(n * u) ELSE n * u

min_prox(a, b, angle) ==
  LET temp1 == MIN(angle_mod_2PI(a - angle), TwoPi - angle_mod_2PI(a - angle))
      temp2 == MIN(angle_mod_2PI(b - angle), TwoPi - angle_mod_2PI(b - angle))
  IN  MIN(temp1, temp2)

\* closest with its comparison reversed
closest_reversed(a, b, angle) ==
  LET temp_alpha == MIN(angle_mod_2PI(a - angle),
                        TwoPi - angle_mod_2PI(a - angle))
      temp_beta  == MIN(angle_mod_2PI(b - angle),
                        TwoPi - angle_mod_2PI(b - angle))
  IN  IF temp_alpha - temp_beta > 0 THEN DIAL_TARGET_ALPHA
      ELSE DIAL_TARGET_BETA

\* closest with <= for <: a tie goes to alpha
closest_tie_to_alpha(a, b, angle) ==
  LET temp_alpha == MIN(angle_mod_2PI(a - angle),
                        TwoPi - angle_mod_2PI(a - angle))
      temp_beta  == MIN(angle_mod_2PI(b - angle),
                        TwoPi - angle_mod_2PI(b - angle))
  IN  IF temp_alpha - temp_beta <= 0 THEN DIAL_TARGET_ALPHA
      ELSE DIAL_TARGET_BETA

closest(a, b, angle) ==
  LET temp_alpha == MIN(angle_mod_2PI(a - angle),
                        TwoPi - angle_mod_2PI(a - angle))
      temp_beta  == MIN(angle_mod_2PI(b - angle),
                        TwoPi - angle_mod_2PI(b - angle))
  IN  IF temp_alpha - temp_beta < 0 THEN DIAL_TARGET_ALPHA
      ELSE DIAL_TARGET_BETA

\* size = MIN (allocation.width, allocation.height) - 2 * border_width
dial_size(a, bw) == MIN(a.width, a.height) - 2 * bw

\* beyond_each_or_both with >= for >
beyond_each_or_both_ge(dx, dy, size) ==
  \/ size < 0
  \/ (dx * dx + dy * dy) * (2 * EACH_OR_BOTH_DEN) * (2 * EACH_OR_BOTH_DEN)
       >= (size * EACH_OR_BOTH_NUM) * (size * EACH_OR_BOTH_NUM)

\* sqrt (SQR (dy) + SQR (dx)) > size / 2.0 * EACH_OR_BOTH, squared: a
\* square root is never negative, so a negative right side is exceeded
beyond_each_or_both(dx, dy, size) ==
  \/ size < 0
  \/ (dx * dx + dy * dy) * (2 * EACH_OR_BOTH_DEN) * (2 * EACH_OR_BOTH_DEN)
       > (size * EACH_OR_BOTH_NUM) * (size * EACH_OR_BOTH_NUM)

(* ------------------------------ the dial ------------------------------- *)

\* no pure function is under evaluation
NoCall == [fn |-> "none", a |-> 0, b |-> 0, x |-> 0, ret |-> 0, prev |-> 0,
           n |-> 0]

\* g_object_new: the construct properties get their defaults, the rest of
\* the private struct is zero, the allocation is the toolkit's initial 1x1
Init ==
  /\ alpha = 0
  /\ beta = Pi
  /\ clockwise = FALSE
  /\ border_width = 0
  /\ target = DIAL_TARGET_ALPHA
  /\ press_angle = 0
  /\ has_grab = FALSE
  /\ press_state = {}
  /\ allocation = [width |-> 1, height |-> 1]
  /\ mapped = FALSE
  /\ gtk_grab = FALSE
  /\ button1 = FALSE
  /\ last = "other"
  /\ call = NoCall

SetBorderWidth(v) ==
  /\ border_width' = v
  /\ last' = "other"
  /\ UNCHANGED << alpha, beta, clockwise, target, press_angle, has_grab,
                  press_state, allocation, mapped, gtk_grab, button1, call >>

SetAlpha(v) ==
  /\ alpha' = v
  /\ last' = "other"
  /\ UNCHANGED << beta, clockwise, target, press_angle, border_width,
                  has_grab, press_state, allocation, mapped, gtk_grab,
                  button1, call >>

SetBeta(v) ==
  /\ beta' = v
  /\ last' = "other"
  /\ UNCHANGED << alpha, clockwise, target, press_angle, border_width,
                  has_grab, press_state, allocation, mapped, gtk_grab,
                  button1, call >>

SetClockwise(v) ==
  /\ clockwise' = v
  /\ last' = "other"
  /\ UNCHANGED << alpha, beta, target, press_angle, border_width, has_grab,
                  press_state, allocation, mapped, gtk_grab, button1, call >>

SizeAllocate(a) ==
  /\ allocation' = a
  /\ last' = "other"
  /\ UNCHANGED << alpha, beta, clockwise, target, press_angle, border_width,
                  has_grab, press_state, mapped, gtk_grab, button1, call >>

Map ==
  /\ ~mapped
  /\ mapped' = TRUE
  /\ last' = "other"
  /\ UNCHANGED << alpha, beta, clockwise, target, press_angle, border_width,
                  has_grab, press_state, allocation, gtk_grab, button1, call >>

\* Unmap without the has_grab cleanup
Unmap_keeps_grab ==
  /\ mapped
  /\ mapped' = FALSE
  /\ last' = "other"
  /\ UNCHANGED << alpha, beta, clockwise, target, press_angle, border_width,
                  has_grab, gtk_grab, press_state, allocation, button1, call >>

Unmap ==
  /\ mapped
  /\ mapped' = FALSE
  /\ has_grab' = FALSE
  /\ gtk_grab' = IF has_grab THEN FALSE ELSE gtk_grab
  /\ last' = "other"
  /\ UNCHANGED << alpha, beta, clockwise, target, press_angle, border_width,
                  press_state, allocation, button1, call >>

\* angle_mod_2PI (arctg (center_y - y, x - center_x)): the pointer's angle
PointerAngle(e) == angle_mod_2PI(arctg(e.dy, e.dx))

\* the press is one the primary branch handles
IsPrimaryPress(e) ==
  e.type = "GDK_BUTTON_PRESS" /\ ~e.ctx /\ e.button = 1

\* the press is one gdk_event_triggers_context_menu answers TRUE for
IsContextPress(e) == e.type = "GDK_BUTTON_PRESS" /\ e.ctx

\* the hit test of the primary branch
GrabsOneHandle(e) ==
  LET angle == PointerAngle(e)
  IN  /\ beyond_each_or_both(e.dx, e.dy, dial_size(allocation, border_width))
      /\ min_prox(alpha, beta, angle) < Pi12

\* ButtonPress whose context-menu branch also takes the grab
ButtonPress_context_grabs(e) ==
  /\ mapped
  /\ (e.button = 1) => (button1 = (e.type = "GDK_2BUTTON_PRESS"))
  /\ button1' = (button1 \/ e.button = 1)
  /\ last' = IF IsPrimaryPress(e) THEN "press"
             ELSE IF IsContextPress(e) THEN "context" ELSE "other"
  /\ IF IsContextPress(e)
       THEN /\ press_state' = {}
            /\ gtk_grab' = TRUE
            /\ has_grab' = TRUE
            /\ UNCHANGED << alpha, beta, target, press_angle >>
     ELSE IF IsPrimaryPress(e)
       THEN LET angle == PointerAngle(e)
                hit   == closest(alpha, beta, angle)
            IN  /\ gtk_grab' = TRUE
                /\ has_grab' = TRUE
                /\ press_state' = e.state
                /\ press_angle' = angle
                /\ IF GrabsOneHandle(e)
                     THEN /\ target' = hit
                          /\ alpha' = IF hit = DIAL_TARGET_ALPHA
                                        THEN angle ELSE alpha
                          /\ beta'  = IF hit = DIAL_TARGET_ALPHA
                                        THEN beta ELSE angle
                     ELSE /\ target' = DIAL_TARGET_BOTH
                          /\ UNCHANGED << alpha, beta >>
     ELSE UNCHANGED << alpha, beta, target, press_angle, has_grab,
                       press_state, gtk_grab >>
  /\ UNCHANGED << clockwise, border_width, allocation, mapped, call >>

\* a press of button 1 comes while the button is up, its double-click
\* event while the button is down again
ButtonPress(e) ==
  /\ mapped
  /\ (e.button = 1) => (button1 = (e.type = "GDK_2BUTTON_PRESS"))
  /\ button1' = (button1 \/ e.button = 1)
  /\ last' = IF IsPrimaryPress(e) THEN "press"
             ELSE IF IsContextPress(e) THEN "context" ELSE "other"
  /\ IF IsContextPress(e)
       THEN /\ press_state' = {}
            /\ UNCHANGED << alpha, beta, target, press_angle, has_grab,
                            gtk_grab >>
     ELSE IF IsPrimaryPress(e)
       THEN LET angle == PointerAngle(e)
                hit   == closest(alpha, beta, angle)
            IN  /\ gtk_grab' = TRUE
                /\ has_grab' = TRUE
                /\ press_state' = e.state
                /\ press_angle' = angle
                /\ IF GrabsOneHandle(e)
                     THEN /\ target' = hit
                          /\ alpha' = IF hit = DIAL_TARGET_ALPHA
                                        THEN angle ELSE alpha
                          /\ beta'  = IF hit = DIAL_TARGET_ALPHA
                                        THEN beta ELSE angle
                     ELSE /\ target' = DIAL_TARGET_BOTH
                          /\ UNCHANGED << alpha, beta >>
     ELSE UNCHANGED << alpha, beta, target, press_angle, has_grab,
                       press_state, gtk_grab >>
  /\ UNCHANGED << clockwise, border_width, allocation, mapped, call >>

ButtonRelease(button) ==
  /\ mapped
  /\ (button = 1) => button1
  /\ button1' = (button1 /\ button # 1)
  /\ last' = "other"
  /\ IF button = 1
       THEN gtk_grab' = FALSE /\ has_grab' = FALSE
       ELSE UNCHANGED << gtk_grab, has_grab >>
  /\ UNCHANGED << alpha, beta, clockwise, target, press_angle, border_width,
                  press_state, allocation, mapped, call >>

\* MotionNotify whose BOTH branch turns alpha and forgets beta
MotionNotify_alpha_only(e) ==
  LET motion_angle == gfloat(PointerAngle(e))
      delta        == gfloat(motion_angle - press_angle)
  IN  /\ mapped
      /\ button1
      /\ last' = "motion"
      /\ press_angle' = motion_angle
      /\ IF delta # 0
           THEN IF target = DIAL_TARGET_ALPHA
                  THEN alpha' = motion_angle /\ beta' = beta
                ELSE IF target = DIAL_TARGET_BETA
                  THEN beta' = motion_angle /\ alpha' = alpha
                ELSE /\ alpha' = angle_mod_2PI(alpha + delta)
                     /\ beta'  = beta
           ELSE UNCHANGED << alpha, beta >>
      /\ UNCHANGED << clockwise, target, border_width, has_grab, press_state,
                      allocation, mapped, gtk_grab, button1, call >>

\* delivered while button 1 is held (GDK_BUTTON1_MOTION_MASK)
MotionNotify(e) ==
  LET motion_angle == gfloat(PointerAngle(e))
      delta        == gfloat(motion_angle - press_angle)
  IN  /\ mapped
      /\ button1
      /\ last' = "motion"
      /\ press_angle' = motion_angle
      /\ IF delta # 0
           THEN IF target = DIAL_TARGET_ALPHA
                  THEN alpha' = motion_angle /\ beta' = beta
                ELSE IF target = DIAL_TARGET_BETA
                  THEN beta' = motion_angle /\ alpha' = alpha
                ELSE /\ alpha' = angle_mod_2PI(alpha + delta)
                     /\ beta'  = angle_mod_2PI(beta + delta)
           ELSE UNCHANGED << alpha, beta >>
      /\ UNCHANGED << clockwise, target, border_width, has_grab, press_state,
                      allocation, mapped, gtk_grab, button1, call >>

Next ==
  \/ \E v \in PropBorderWidths : SetBorderWidth(v)
  \/ \E v \in PropAngles : SetAlpha(v)
  \/ \E v \in PropAngles : SetBeta(v)
  \/ \E v \in BOOLEAN : SetClockwise(v)
  \/ \E a \in Allocations : SizeAllocate(a)
  \/ Map
  \/ Unmap
  \/ \E e \in PressEvents : ButtonPress(e)
  \/ \E b \in {1, 2, 3} : ButtonRelease(b)
  \/ \E e \in MotionEvents : MotionNotify(e)

Spec == Init /\ [][Next]_vars

(* ------------- drags through a position that is no gfloat -------------- *)

\* pointer positions of a drag: the centre, the rim to the right of and
\* above the centre, and the rim on the lower right diagonal, whose angle
\* 7 pi/4 is not a gfloat
DragOffsets ==
  { <<0, 0>>, <<RimOffset, 0>>, <<0, RimOffset>>, <<RimOffset, -RimOffset>> }

DragPressEvents ==
  { [type |-> "GDK_BUTTON_PRESS", button |-> 1, ctx |-> FALSE,
     state |-> {}, dx |-> o[1], dy |-> o[2]] : o \in DragOffsets }

DragMotionEvents == { [dx |-> o[1], dy |-> o[2]] : o \in DragOffsets }

\* values given to "alpha" and "beta": the defaults and the diagonal's angle
DragPropAngles == {0, Pi, (7 * Pi) \div 4}

NextDrag ==
  \/ \E v \in DragPropAngles : SetAlpha(v)
  \/ \E v \in DragPropAngles : SetBeta(v)
  \/ \E v \in BOOLEAN : SetClockwise(v)
  \/ \E a \in Allocations : SizeAllocate(a)
  \/ Map
  \/ Unmap
  \/ \E e \in DragPressEvents : ButtonPress(e)
  \/ ButtonRelease(1)
  \/ \E e \in DragMotionEvents : MotionNotify(e)

SpecDrag == Init /\ [][NextDrag]_vars

(* ------------------- the pure functions, on their own ------------------ *)

\* the arguments of angle_mod_2PI: every grid angle within one turn of
\* [0, 2 pi]
NormalizeArgs == (-TwoPi)..(2 * TwoPi)

\* the arguments of closest: every grid angle of [0, 2 pi]
HandleArgs == 0..TwoPi

InitPure ==
  /\ alpha = 0
  /\ beta = Pi
  /\ clockwise = FALSE
  /\ border_width = 0
  /\ target = DIAL_TARGET_ALPHA
  /\ press_angle = 0
  /\ has_grab = FALSE
  /\ press_state = {}
  /\ allocation = [width |-> 1, height |-> 1]
  /\ mapped = FALSE
  /\ gtk_grab = FALSE
  /\ button1 = FALSE
  /\ last = "other"
  /\ call \in [fn : {"angle_mod_2PI", "closest"}, a : HandleArgs,
               b : HandleArgs, x : NormalizeArgs, ret : {0}, prev : {0},
               n : {0}]
  /\ IF call.fn = "angle_mod_2PI"
       THEN call.a = 0 /\ call.b = 0
       ELSE call.x \in HandleArgs

\* ret = angle_mod_2PI (x), then ret = angle_mod_2PI (ret)
EvalAngleMod2PI ==
  /\ call.fn = "angle_mod_2PI"
  /\ call.n < 2
  /\ call' = [call EXCEPT
                !.ret = angle_mod_2PI(IF call.n = 0 THEN call.x ELSE call.ret),
                !.prev = call.ret,
                !.n = call.n + 1]
  /\ UNCHANGED dial

\* ret = closest (a, b, x)
EvalClosest ==
  /\ call.fn = "closest"
  /\ call.n = 0
  /\ call' = [call EXCEPT !.ret = closest(call.a, call.b, call.x), !.n = 1]
  /\ UNCHANGED dial

NextPure == EvalAngleMod2PI \/ EvalClosest

SpecPure == InitPure /\ [][NextPure]_vars

TypeOK ==
  /\ alpha \in 0..TwoPi
  /\ beta \in 0..TwoPi
  /\ clockwise \in BOOLEAN
  /\ target \in {DIAL_TARGET_ALPHA, DIAL_TARGET_BETA, DIAL_TARGET_BOTH}
  /\ press_angle \in 0..TwoPi
  /\ border_width \in MinBorderWidth..MaxBorderWidth
  /\ has_grab \in BOOLEAN
  /\ press_state \in Modifiers
  /\ mapped \in BOOLEAN
  /\ gtk_grab = has_grab
  /\ button1 \in BOOLEAN
  /\ last \in {"press", "context", "motion", "other"}

(* ----------------------- the vocabulary of the claims ------------------ *)

\* the angle is in the half-open range [0, 2 pi)
InHalfOpenRange(x) == 0 <= x /\ x < TwoPi

\* angularDistance: the smaller of the forward and the backward separation
AngularDistance(p, q) ==
  LET d == (p - q) % TwoPi
  IN  IF d < TwoPi - d THEN d ELSE TwoPi - d

\* closestHandle: ALPHA when alpha is strictly nearer, BETA otherwise
ClosestHandle(a, b, x) ==
  IF AngularDistance(a, x) < AngularDistance(b, x)
    THEN DIAL_TARGET_ALPHA ELSE DIAL_TARGET_BETA

\* minDistanceToEither
MinDistanceToEither(a, b, x) ==
  IF AngularDistance(a, x) < AngularDistance(b, x)
    THEN AngularDistance(a, x) ELSE AngularDistance(b, x)

\* distanceFromCenter > 0.3 * radius, radius = (min(w, h) - 2 * border) / 2:
\* 10 * 2 * distance > 3 * (2 * radius), squared when the right side is >= 0
FartherThanThreshold(e) ==
  LET diameter == (IF allocation.width < allocation.height
                     THEN allocation.width ELSE allocation.height)
                  - 2 * border_width
  IN  \/ diameter < 0
      \/ 400 * (e.dx * e.dx + e.dy * e.dy) > 9 * diameter * diameter

\* the step is a primary-button press with event e
PrimaryPressStep(e) == last' = "press" /\ IsPrimaryPress(e) /\ ButtonPress(e)

\* the step is a motion event e
MotionStep(e) == last' = "motion" /\ MotionNotify(e)

\* the step is a press e that triggers the context menu
ContextPressStep(e) ==
  last' = "context" /\ IsContextPress(e) /\ ButtonPress(e)

\* the press of event e hits the exact centre of the widget
AtCentre(e) == e.dx = 0 /\ e.dy = 0

\* the drag has grabbed one handle
SingleHandle(t) == t \in {DIAL_TARGET_ALPHA, DIAL_TARGET_BETA}

\* the angle of the handle that target t names, and of the other one
Grabbed(t, a, b) == IF t = DIAL_TARGET_ALPHA THEN a ELSE b

Ungrabbed(t, a, b) == IF t = DIAL_TARGET_ALPHA THEN b ELSE a

\* the step sets one of the properties alpha, beta, clockwise
PropertySetStep ==
  /\ last' = "other"
  /\ \/ \E v \in 0..TwoPi : SetAlpha(v) \/ SetBeta(v)
     \/ \E v \in BOOLEAN : SetClockwise(v)

(* ------------------------------- claims -------------------------------- *)

C2_PressHitTest ==
  [][ \A e \in PressEvents :
        PrimaryPressStep(e) =>
          IF /\ FartherThanThreshold(e)
             /\ MinDistanceToEither(alpha, beta, PointerAngle(e)) < Pi12
            THEN /\ target' = ClosestHandle(alpha, beta, PointerAngle(e))
                 /\ target' = DIAL_TARGET_ALPHA => alpha' = PointerAngle(e)
                 /\ target' = DIAL_TARGET_BETA => beta' = PointerAngle(e)
            ELSE /\ target' = DIAL_TARGET_BOTH
                 /\ alpha' = alpha
                 /\ beta' = beta ]_vars

\* C2 witnesses: a press on the rim within pi/12 of alpha has just grabbed
\* alpha, which now equals the press angle
C2_Witness ==
  /\ last = "press"
  /\ target = DIAL_TARGET_ALPHA
  /\ alpha = press_angle
  /\ press_angle = Pi \div 2
  /\ beta = Pi

\* C3 (as claimed): a primary press farther than 0.3 * radius from the
\* centre and less than pi/12 from alpha sets target ALPHA and alpha to the
\* press angle, whatever beta is.
C3_NearAlphaGrabsAlpha ==
  [][ \A e \in PressEvents :
        ( /\ PrimaryPressStep(e)
          /\ FartherThanThreshold(e)
          /\ AngularDistance(alpha, PointerAngle(e)) < Pi12 )
        => (target' = DIAL_TARGET_ALPHA /\ alpha' = PointerAngle(e)) ]_vars

\* C3 (amended): a primary press farther than 0.3 * radius from the centre,
\* less than pi/12 from alpha and strictly nearer to alpha than to beta sets
\* target ALPHA and alpha to the press angle, and leaves beta alone.
C3_NearerAlphaGrabsAlpha ==
  [][ \A e \in PressEvents :
        ( /\ PrimaryPressStep(e)
          /\ FartherThanThreshold(e)
          /\ AngularDistance(alpha, PointerAngle(e)) < Pi12
          /\ AngularDistance(alpha, PointerAngle(e))
               < AngularDistance(beta, PointerAngle(e)) )
        => ( /\ target' = DIAL_TARGET_ALPHA
             /\ alpha' = PointerAngle(e)
             /\ beta' = beta ) ]_vars

\* C3 witness: alpha has just been grabbed by a press while beta is itself
\* less than pi/12 from the press angle
C3_Witness ==
  /\ last = "press"
  /\ target = DIAL_TARGET_ALPHA
  /\ alpha = press_angle
  /\ AngularDistance(beta, press_angle) < Pi12

\* C4 (as claimed): a primary press at the exact centre sets target BOTH and
\* changes neither angle, for every allocation and border width.
C4_CentrePressIsBoth ==
  [][ \A e \in PressEvents :
        (PrimaryPressStep(e) /\ AtCentre(e))
        => ( /\ target' = DIAL_TARGET_BOTH
             /\ alpha' = alpha
             /\ beta' = beta ) ]_vars

\* C5: a motion event of a drag with target BOTH turns alpha and beta by the
\* same amount and leaves their angular distance as it was.
C5_BothDragKeepsSeparation ==
  [][ \A e \in MotionEvents :
        (has_grab /\ target = DIAL_TARGET_BOTH /\ MotionStep(e))
        => ( /\ AngularDistance(alpha', beta') = AngularDistance(alpha, beta)
             /\ (alpha' - alpha) % TwoPi = (beta' - beta) % TwoPi ) ]_vars

\* C5 witness: a drag with target BOTH has turned the initial handles
\* (0 and pi) by a quarter turn
C5_Witness ==
  /\ last = "motion"
  /\ has_grab
  /\ target = DIAL_TARGET_BOTH
  /\ alpha = Pi \div 2
  /\ beta = Pi + Pi \div 2
  /\ press_angle # 0

C7_GrabBetweenPressAndRelease ==
  /\ ~has_grab
  /\ [][ /\ (\E e \in PressEvents : PrimaryPressStep(e)) => has_grab'
         /\ (ButtonRelease(1) \/ Unmap) => ~has_grab'
         /\ ( /\ ~(\E e \in PressEvents : PrimaryPressStep(e))
              /\ ~ButtonRelease(1)
              /\ ~Unmap ) => (has_grab' = has_grab)
         /\ gtk_grab' = has_grab' ]_vars

\* C7 witness: the widget was unmapped in the middle of a drag (button 1 is
\* still held since the primary press that stored the Control modifier) and
\* holds no grab
C7_Witness ==
  /\ ~mapped
  /\ button1
  /\ press_state = {"GDK_CONTROL_MASK"}
  /\ ~has_grab
  /\ ~gtk_grab

\* C8 (as claimed): for every x in [-2 pi, 4 pi], angle_mod_2PI (x) is in
\* [0, 2 pi) and applying angle_mod_2PI to it again does not change it.
C8_NormalizeIdempotentInRange ==
  call.fn = "angle_mod_2PI" =>
    /\ call.n >= 1 => InHalfOpenRange(call.ret)
    /\ call.n = 2 => call.ret = call.prev

\* C9: closest returns ALPHA exactly when alpha's angular distance to the
\* angle is strictly less than beta's, and BETA otherwise, a tie included;
\* both angular distances lie in [0, pi].
C9_ClosestTieToBeta ==
  (call.fn = "closest" /\ call.n = 1) =>
    /\ AngularDistance(call.a, call.x) \in 0..Pi
    /\ AngularDistance(call.b, call.x) \in 0..Pi
    /\ call.ret = DIAL_TARGET_ALPHA
         <=> AngularDistance(call.a, call.x) < AngularDistance(call.b, call.x)
    /\ call.ret # DIAL_TARGET_ALPHA => call.ret = DIAL_TARGET_BETA
    /\ AngularDistance(call.a, call.x) = AngularDistance(call.b, call.x)
         => call.ret = DIAL_TARGET_BETA

\* C9 witness: the equidistant case alpha = 0, beta = pi, angle = pi/2 has
\* been evaluated and gave BETA
C9_Witness ==
  /\ call.fn = "closest"
  /\ call.n = 1
  /\ call.a = 0
  /\ call.b = Pi
  /\ call.x = Pi \div 2
  /\ call.ret = DIAL_TARGET_BETA

\* C10 (as claimed): a motion event delivered while the dial does not hold
\* the grab changes neither alpha nor beta.
C10_MotionWithoutGrabIsInert ==
  [][ \A e \in MotionEvents :
        (~has_grab /\ MotionStep(e)) => (alpha' = alpha /\ beta' = beta) ]_vars

\* C11 (as claimed): in a drag of one handle with no property set in
\* between, the press and every motion event leave the grabbed handle and
\* the recorded angle equal to the pointer's angle, and the other handle and
\* clockwise as they were; a motion event at the recorded angle changes
\* neither alpha nor beta.
C11_SingleDragTracksPointer ==
  [][ /\ \A e \in PressEvents \cup DragPressEvents :
           (PrimaryPressStep(e) /\ SingleHandle(target'))
           => ( /\ Grabbed(target', alpha', beta') = PointerAngle(e)
                /\ press_angle' = PointerAngle(e)
                /\ Ungrabbed(target', alpha', beta')
                     = Ungrabbed(target', alpha, beta)
                /\ clockwise' = clockwise )
      /\ \A e \in MotionEvents \cup DragMotionEvents :
           ( /\ has_grab /\ SingleHandle(target)
             /\ Grabbed(target, alpha, beta) = press_angle
             /\ MotionStep(e) )
           => ( /\ Grabbed(target, alpha', beta') = PointerAngle(e)
                /\ press_angle' = PointerAngle(e)
                /\ Ungrabbed(target, alpha', beta')
                     = Ungrabbed(target, alpha, beta)
                /\ clockwise' = clockwise
                /\ PointerAngle(e) = press_angle
                     => (alpha' = alpha /\ beta' = beta) )
      /\ (has_grab /\ has_grab' /\ SingleHandle(target) /\ ~PropertySetStep)
           => ( /\ Ungrabbed(target, alpha', beta')
                     = Ungrabbed(target, alpha, beta)
                /\ clockwise' = clockwise ) ]_vars

\* C12: a press that triggers the context menu leaves alpha, beta,
\* clockwise, target, press_angle and the grab as they were and clears
\* press_state, whichever button it is; with button 1 it takes no grab.
C12_ContextPressOnlyClearsModifiers ==
  [][ \A e \in PressEvents :
        ContextPressStep(e)
        => ( /\ alpha' = alpha
             /\ beta' = beta
             /\ clockwise' = clockwise
             /\ target' = target
             /\ press_angle' = press_angle
             /\ has_grab' = has_grab
             /\ gtk_grab' = gtk_grab
             /\ press_state' = {}
             /\ e.button = 1 => (~has_grab' /\ ~gtk_grab') ) ]_vars

\* C12 witness: a press of button 1 that triggered the context menu has
\* just run on a dial whose last drag grabbed beta away from its default:
\* button 1 is down, no grab is held, target and press_angle are the old
\* drag's
C12_Witness ==
  /\ last = "context"
  /\ button1
  /\ ~has_grab
  /\ ~gtk_grab
  /\ press_state = {}
  /\ target = DIAL_TARGET_BETA
  /\ press_angle = Pi \div 2
  /\ beta = Pi \div 2

(* --------------------------- supporting facts -------------------------- *)

\* what remains of C6 beside the range: a motion event of a drag with target
\* BOTH adds (m - p) to both angles modulo 2 pi, for every p and m
BothDragCongruentModTwoPi ==
  [][ \A e \in MotionEvents :
        (has_grab /\ target = DIAL_TARGET_BOTH /\ MotionStep(e))
        => ( /\ alpha' % TwoPi
                  = (alpha + (PointerAngle(e) - press_angle)) % TwoPi
             /\ beta' % TwoPi
                  = (beta + (PointerAngle(e) - press_angle)) % TwoPi ) ]_vars

\* what remains of C8 beside the range: angle_mod_2PI is idempotent on
\* [-2 pi, 4 pi], and its result lies in the closed range [0, 2 pi]
NormalizeIdempotentInClosedRange ==
  call.fn = "angle_mod_2PI" =>
    /\ call.n >= 1 => call.ret \in 0..TwoPi
    /\ call.n = 2 => call.ret = call.prev

\* what remains of C11 beside the narrowing: in a drag of one handle, the
\* press leaves the grabbed handle and the recorded angle at the pointer's
\* angle, every motion event leaves them at the gfloat of the pointer's
\* angle, the other handle and clockwise stay, and a motion event whose
\* gfloat angle is the recorded angle changes neither alpha nor beta
SingleDragTracksNarrowedAngle ==
  [][ /\ \A e \in PressEvents \cup DragPressEvents :
           (PrimaryPressStep(e) /\ SingleHandle(target'))
           => ( /\ Grabbed(target', alpha', beta') = PointerAngle(e)
                /\ press_angle' = PointerAngle(e)
                /\ Ungrabbed(target', alpha', beta')
                     = Ungrabbed(target', alpha, beta)
                /\ clockwise' = clockwise )
      /\ \A e \in MotionEvents \cup DragMotionEvents :
           ( /\ has_grab /\ SingleHandle(target)
             /\ Grabbed(target, alpha, beta) = press_angle
             /\ MotionStep(e) )
           => ( /\ Grabbed(target, alpha', beta') = gfloat(PointerAngle(e))
                /\ press_angle' = gfloat(PointerAngle(e))
                /\ Ungrabbed(target, alpha', beta')
                     = Ungrabbed(target, alpha, beta)
                /\ clockwise' = clockwise
                /\ gfloat(PointerAngle(e)) = press_angle
                     => (alpha' = alpha /\ beta' = beta) )
      /\ (has_grab /\ has_grab' /\ SingleHandle(target) /\ ~PropertySetStep)
           => ( /\ Ungrabbed(target, alpha', beta')
                     = Ungrabbed(target, alpha, beta)
                /\ clockwise' = clockwise ) ]_vars

=============================================================================
